---- MODULE Spec2Model ----
(***************************************************************************)
(* Model of moving_cells_01 (src/src/main.rs): the diagram parser          *)
(* (CellTable::new / CellTable::get), the character -> MoveType table      *)
(* (move_type_from_char), the startup system that spawns one Cell entity   *)
(* per grid cell (setup) and the per-frame interpolation (move_cells).     *)
(*                                                                         *)
(* Characters.  The module's strings are ASCII, so every glyph of the      *)
(* diagram vocabulary is written as its Unicode code point ("U+2192" is    *)
(* the rightwards arrow).  A text is a sequence of characters.             *)
(*                                                                         *)
(* Numbers.  Every f32 of the program is a fixed-point integer counting    *)
(* multiples of 1/Unit, Unit == 2 * RateRes: cell sizes are whole numbers, *)
(* half extents are multiples of 1/2 and a phase is a multiple of          *)
(* 1/RateRes, so every product and quotient of setup and move_cells is     *)
(* exact in this representation.  The one narrowing conversion of the      *)
(* program, `as f32` at main.rs:303, is modelled as what it does: it       *)
(* rounds the f64 quotient to the nearest value of the coarser f32 grid    *)
(* (ties to even).  The f64 grid is 1/(span_sec * TicksPerSec), the f32    *)
(* grid 1/RateRes.                                                         *)
(***************************************************************************)
EXTENDS Integers, Sequences, FiniteSets

VARIABLES
    pc,          \* "main" | "Loading" | "Loaded" | "panicked"
    panic,       \* "none" | "unwrap_none" | "invalid_cell_type" | "index_out_of_bounds"
    input,       \* the text handed to CellTable::new (main.rs:26-38)
    cell_table,  \* CellsParam.cell_table: [table, width, height]
    cell_size,   \* CellsParam.cell_size: Vec2, fixed-point
    span_sec,    \* CellsParam.span_sec, in whole seconds
    commands,    \* the spawn commands setup has issued, in order
    cells,       \* the (Transform, Cell) entities of the world, in spawn order
    elapsed,     \* Time::elapsed, in ticks of 1/TicksPerSec seconds
    rate,        \* the phase computed by the last move_cells pass (f32), -1 before any
    moved        \* TRUE once a move_cells pass has iterated the spawned cells

vars == <<pc, panic, input, cell_table, cell_size, span_sec, commands, cells,
          elapsed, rate, moved>>

---------------------------------------------------------------------------
(* Bounds of the model *)

MaxLen == 3          \* longest enumerated input text, in characters
MaxElapsed == 9      \* last tick of the clock the model follows
TicksPerSec == 4     \* resolution of the f64 clock, ticks per second
RateRes == 3         \* resolution of an f32 phase: multiples of 1/RateRes

Unit == 2 * RateRes  \* fixed-point scale: one world unit

MainCellSize == 50   \* main.rs:39, cell_size of the shipped configuration
MainSpanSec == 1     \* main.rs:41, span_sec of the shipped configuration

FrameDts == {1, 2}             \* ticks between two rendered frames
SpanSecs == {MainSpanSec, 2}   \* span_sec values tried

---------------------------------------------------------------------------
(* Characters *)

SP == " "
NL == "\n"
ZERO == "0"
ARROW_LEFT == "U+2190"
ARROW_UP == "U+2191"
ARROW_RIGHT == "U+2192"
ARROW_DOWN == "U+2193"
BOX_DOWN_RIGHT == "U+250C"        \* thin, corner at top left
BOX_DOWN_LEFT == "U+2510"         \* thin, corner at top right
BOX_UP_RIGHT == "U+2514"          \* thin, corner at bottom left
BOX_UP_LEFT == "U+2518"           \* thin, corner at bottom right
BOX_HEAVY_DOWN_RIGHT == "U+250F"  \* thick, corner at top left
BOX_HEAVY_DOWN_LEFT == "U+2513"   \* thick, corner at top right
BOX_HEAVY_UP_RIGHT == "U+2517"    \* thick, corner at bottom left
BOX_HEAVY_UP_LEFT == "U+251B"     \* thick, corner at bottom right
LATIN_X == "x"                    \* a character outside the vocabulary

\* The characters the short enumerated texts are drawn from.
Alphabet == {SP, NL, ZERO, ARROW_RIGHT, BOX_HEAVY_DOWN_LEFT, LATIN_X}

---------------------------------------------------------------------------
(* Vec2 and fixed-point f32 arithmetic *)

Vec2(x, y) == [x |-> x, y |-> y]

\* `n as f32` for a whole number n
F(n) == n * Unit

\* f32 product and quotient of two fixed-point numbers
fmul(a, b) == (a * b) \div Unit
fdiv(a, b) == (a * Unit) \div b

\* `q as f32` for the f64 value num/den >= 0: the nearest multiple of
\* 1/RateRes, ties to the even multiple (IEEE round-to-nearest-even).
as_f32(num, den) ==
    LET q == (num * RateRes) \div den
        r == (num * RateRes) % den
        k == IF 2 * r < den THEN q
             ELSE IF 2 * r > den THEN q + 1
             ELSE IF q % 2 = 0 THEN q ELSE q + 1
    IN  k * (Unit \div RateRes)

---------------------------------------------------------------------------
(* str::lines, str::trim, join("\n") as CellTable::new uses them *)

\* s split at every line feed: one piece more than there are line feeds
split_nl(s) ==
    LET nl == {i \in 1..Len(s) : s[i] = NL}
        n == Cardinality(nl)
        \* the position of the k-th line feed; 0 for k = 0, Len(s) + 1 past the last
        at(k) == IF k = 0 THEN 0
                 ELSE IF k > n THEN Len(s) + 1
                 ELSE CHOOSE i \in nl : Cardinality({j \in nl : j <= i}) = k
    IN  [k \in 1..(n + 1) |-> SubSeq(s, at(k - 1) + 1, at(k) - 1)]

\* str::lines(): the pieces between line feeds; a final line ending is
\* optional, so a last empty piece is no line.
lines(s) ==
    LET ps == split_nl(s)
    IN  IF ps[Len(ps)] = <<>> THEN SubSeq(ps, 1, Len(ps) - 1) ELSE ps

is_whitespace(c) == c \in {SP, NL}

\* str::trim(): l without its leading and trailing whitespace
trim(l) ==
    LET keep == {i \in 1..Len(l) : ~is_whitespace(l[i])}
    IN  IF keep = {} THEN <<>>
        ELSE SubSeq(l, CHOOSE i \in keep : \A j \in keep : i <= j,
                       CHOOSE i \in keep : \A j \in keep : i >= j)

RECURSIVE join(_)
\* Vec<&str>::join("\n")
join(ls) ==
    IF ls = <<>> THEN <<>>
    ELSE IF Len(ls) = 1 THEN ls[1]
    ELSE ls[1] \o <<NL>> \o join(Tail(ls))

RECURSIVE max_len(_)
\* Iterator::max over the lines' chars().count(); -1 stands for None
max_len(ls) ==
    IF ls = <<>> THEN -1
    ELSE LET m == max_len(Tail(ls))
         IN  IF Len(ls[1]) >= m THEN Len(ls[1]) ELSE m

---------------------------------------------------------------------------
(* CellTable (main.rs:98-141) *)

PANIC == "PANIC"

NoTable == [table |-> <<>>, width |-> 0, height |-> 0]

\* CellTable::new.  ok = FALSE is the panic of max().unwrap() on no lines.
CellTable_new(_cell_info) ==
    LET raw == lines(_cell_info)
        cell_info == join([i \in 1..Len(raw) |-> trim(raw[i])])
        table == lines(cell_info)
        width == max_len(table)
        height == Len(table)
    IN  IF width < 0
        THEN [ok |-> FALSE, cell_table |-> NoTable]
        ELSE [ok |-> TRUE,
              cell_table |-> [table |-> table, width |-> width, height |-> height]]

\* get with its second test against self.width instead of row.len()
get_width_check(self, x, y) ==
    IF y >= self.height THEN SP
    ELSE IF y >= Len(self.table) THEN PANIC
    ELSE IF x >= self.width THEN SP
    ELSE IF x >= Len(self.table[y + 1]) THEN PANIC
    ELSE self.table[y + 1][x + 1]

\* CellTable::get.  PANIC is the bounds check of self.table[y]; row[x] is
\* reached only with x < row.len().
get(self, x, y) ==
    IF y >= self.height THEN SP
    ELSE IF y >= Len(self.table) THEN PANIC
    ELSE IF x >= Len(self.table[y + 1]) THEN SP
    ELSE self.table[y + 1][x + 1]

---------------------------------------------------------------------------
(* MoveType, move_type_from_char, create_cell (main.rs:74-96, 195-221) *)

Straight == {"Left", "Right", "Up", "Down"}
Corner == {"BottomToLeft", "TopToLeft", "BottomToRight", "TopToRight",
           "LeftToTop", "RightToTop", "LeftToBottom", "RightToBottom"}
MoveType == {"Blank", "Center"} \cup Straight \cup Corner

move_type_from_char(c) ==
    CASE c = SP -> "Blank"
      [] c = ZERO -> "Center"
      [] c = ARROW_LEFT -> "Left"
      [] c = BOX_HEAVY_DOWN_LEFT -> "BottomToLeft"
      [] c = BOX_UP_LEFT -> "TopToLeft"
      [] c = ARROW_RIGHT -> "Right"
      [] c = BOX_DOWN_RIGHT -> "BottomToRight"
      [] c = BOX_HEAVY_UP_RIGHT -> "TopToRight"
      [] c = ARROW_UP -> "Up"
      [] c = BOX_HEAVY_UP_LEFT -> "LeftToTop"
      [] c = BOX_UP_RIGHT -> "RightToTop"
      [] c = ARROW_DOWN -> "Down"
      [] c = BOX_DOWN_LEFT -> "LeftToBottom"
      [] c = BOX_HEAVY_DOWN_RIGHT -> "RightToBottom"
      [] OTHER -> PANIC

\* Cell::new through create_cell; the caller has seen move_type_from_char succeed
create_cell(cell_type, pos) ==
    [pos |-> pos, move_type |-> move_type_from_char(cell_type)]

---------------------------------------------------------------------------
(* setup (main.rs:223-281) *)

\* the Camera2d bundle, in the shape of the other spawn commands
CameraBundle ==
    [bundle |-> "Camera2d", transform |-> Vec2(0, 0),
     cell |-> [pos |-> Vec2(0, 0), move_type |-> "None"]]

\* main.rs:260-271: the position of the cell of column ix and flipped row _iy
setup_pos(ix, _iy, w, h, size) ==
    LET base_x == (-(fmul(F(w), size.x))) \div 2
        base_y == (-(fmul(F(h), size.y))) \div 2
        x == fmul(F(ix), size.x) + base_x
        y == fmul(F(_iy), size.y) + base_y
    IN  Vec2(x, y)

\* main.rs:273-278: the bundle commands.spawn is given for one cell
cell_bundle(c, pos) ==
    [bundle |-> "Cell", transform |-> pos, cell |-> create_cell(c, pos)]

\* loop_char without the flip of main.rs:265 (iy = _iy)
loop_char_no_flip(table, n) ==
    get(table, n % table.width, n \div table.width)

\* main.rs:267 in iteration n of the two nested loops of main.rs:263-280
\* (n counts the cells in loop order: _iy = n \div w, ix = n % w)
loop_char(table, n) ==
    get(table, n % table.width, table.height - (n \div table.width) - 1)

is_marked_bundle(command) == command.cell.move_type # "Blank"

\* setup spawning nothing for a blank cell
setup_skip_blank(table, size) ==
    LET w == table.width
        h == table.height
        char(n) == get(table, n % w, h - (n \div w) - 1)
        bad == {n \in 0..(w * h - 1) :
                    char(n) = PANIC \/ move_type_from_char(char(n)) = PANIC}
        stop == IF bad = {} THEN w * h ELSE CHOOSE n \in bad : \A m \in bad : n <= m
        issued == [k \in 1..stop |->
                    [bundle |-> "Cell",
                     transform |-> setup_pos((k - 1) % w, (k - 1) \div w, w, h, size),
                     cell |-> create_cell(char(k - 1),
                                 setup_pos((k - 1) % w, (k - 1) \div w, w, h, size))]]
    IN  [panic |-> IF bad = {} THEN "none"
                   ELSE IF char(stop) = PANIC THEN "index_out_of_bounds"
                   ELSE "invalid_cell_type",
         commands |-> <<CameraBundle>> \o SelectSeq(issued, is_marked_bundle)]

\* main.rs:234-280.  The loops end early with the panic of get or of
\* move_type_from_char (the println of main.rs:268 evaluates it before the
\* spawn of the same iteration); the commands issued before it stay issued.
setup(table, size) ==
    LET w == table.width
        h == table.height
        bad == {n \in 0..(w * h - 1) :
                    \/ loop_char(table, n) = PANIC
                    \/ move_type_from_char(loop_char(table, n)) = PANIC}
        stop == IF bad = {} THEN w * h ELSE CHOOSE n \in bad : \A m \in bad : n <= m
        issued == [k \in 1..stop |->
                    cell_bundle(loop_char(table, k - 1),
                                setup_pos((k - 1) % w, (k - 1) \div w, w, h, size))]
    IN  [panic |-> IF bad = {} THEN "none"
                   ELSE IF loop_char(table, stop) = PANIC THEN "index_out_of_bounds"
                   ELSE "invalid_cell_type",
         commands |-> <<CameraBundle>> \o issued]

is_cell_bundle(command) == command.bundle = "Cell"

\* the (Transform, Cell) entities the applied commands leave in the world
cell_entities(queue) ==
    LET spawned == SelectSeq(queue, is_cell_bundle)
    IN  [i \in 1..Len(spawned) |->
            [transform |-> spawned[i].transform, cell |-> spawned[i].cell]]

---------------------------------------------------------------------------
(* map and move_cells (main.rs:283-368) *)

Hidden == -999999

\* map without its final `+ out_min`
map_no_offset(in, in_min, in_max, out_min, out_max) ==
    fdiv(fmul(in - in_min, out_max - out_min), in_max - in_min)

map(in, in_min, in_max, out_min, out_max) ==
    fdiv(fmul(in - in_min, out_max - out_min), in_max - in_min) + out_min

\* main.rs:303: the phase of the frame, for the clock at `ticks` and span ss
frame_rate(ticks, ss) ==
    LET span == ss * TicksPerSec
    IN  as_f32(ticks % span, span)

\* main.rs:307-365: the Transform of one entity after the match on its move_type
move_cell(transform, cell, r, w_hf, h_hf) ==
    LET x == cell.pos.x
        y == cell.pos.y
        tx == transform.x
        ty == transform.y
        mt == cell.move_type
    IN  CASE mt = "Blank" -> Vec2(F(Hidden), F(Hidden))
          [] mt = "Center" -> transform
          [] mt = "Left" -> Vec2(map(r, 0, F(1), x + w_hf, x - w_hf), ty)
          [] mt = "BottomToLeft" ->
                Vec2(map(r, 0, F(1), x, x - w_hf), map(r, 0, F(1), y - w_hf, y))
          [] mt = "TopToLeft" ->
                Vec2(map(r, 0, F(1), x, x - w_hf), map(r, 0, F(1), y + h_hf, y))
          [] mt = "Right" -> Vec2(map(r, 0, F(1), x - w_hf, x + w_hf), ty)
          [] mt = "BottomToRight" ->
                Vec2(map(r, 0, F(1), x, x + w_hf), map(r, 0, F(1), y - w_hf, y))
          [] mt = "TopToRight" ->
                Vec2(map(r, 0, F(1), x, x + w_hf), map(r, 0, F(1), y + h_hf, y))
          [] mt = "Up" -> Vec2(tx, map(r, 0, F(1), y - h_hf, y + h_hf))
          [] mt = "LeftToTop" ->
                Vec2(map(r, 0, F(1), x - w_hf, x), map(r, 0, F(1), y, y + h_hf))
          [] mt = "RightToTop" ->
                Vec2(map(r, 0, F(1), x + w_hf, x), map(r, 0, F(1), y, y + h_hf))
          [] mt = "Down" -> Vec2(tx, map(r, 0, F(1), y + h_hf, y - h_hf))
          [] mt = "LeftToBottom" ->
                Vec2(map(r, 0, F(1), x - w_hf, x), map(r, 0, F(1), y, y - h_hf))
          [] mt = "RightToBottom" ->
                Vec2(map(r, 0, F(1), x + w_hf, x), map(r, 0, F(1), y, y - h_hf))

\* move_cells with the full cell extents where main.rs:301-302 halve them
move_cells_full_extent(query, r, size) ==
    [i \in 1..Len(query) |->
        [transform |-> move_cell(query[i].transform, query[i].cell, r, size.x, size.y),
         cell |-> query[i].cell]]

\* main.rs:298-366: one pass over the query with phase r
move_cells(query, r, size) ==
    LET w_hf == size.x \div 2
        h_hf == size.y \div 2
    IN  [i \in 1..Len(query) |->
            [transform |-> move_cell(query[i].transform, query[i].cell, r, w_hf, h_hf),
             cell |-> query[i].cell]]

---------------------------------------------------------------------------
(* The inputs: the diagram and configuration shipped in main, and short texts *)

Indent == [i \in 1..15 |-> SP]

rep(c, n) == [i \in 1..n |-> c]

\* main.rs:26-38.  The `\` after the opening quote and after the last glyph
\* swallow the line break and the indentation that follow them; the other
\* rows keep their 15 leading spaces.
MainDiagram ==
    <<BOX_DOWN_RIGHT>> \o rep(ARROW_RIGHT, 9) \o <<BOX_DOWN_LEFT, NL>>
    \o Indent \o <<ARROW_UP, SP, BOX_DOWN_RIGHT>> \o rep(ARROW_RIGHT, 5)
        \o <<BOX_DOWN_LEFT, SP, ARROW_DOWN, NL>>
    \o Indent \o <<ARROW_UP, SP, ARROW_UP, ZERO, SP, SP, SP, ZERO, ARROW_DOWN,
                   SP, ARROW_DOWN, NL>>
    \o Indent \o <<ARROW_UP, SP, BOX_UP_RIGHT>> \o rep(ARROW_LEFT, 5)
        \o <<BOX_UP_LEFT, SP, ARROW_DOWN, NL>>
    \o Indent \o <<ARROW_UP, SP, BOX_HEAVY_DOWN_RIGHT, ARROW_LEFT,
                   BOX_HEAVY_DOWN_LEFT, SP, BOX_DOWN_RIGHT, ARROW_RIGHT,
                   BOX_DOWN_LEFT, SP, ARROW_DOWN, NL>>
    \o Indent \o <<ARROW_UP, SP, ARROW_DOWN, ZERO, ARROW_UP, SP, ARROW_UP, ZERO,
                   ARROW_DOWN, SP, ARROW_DOWN, NL>>
    \o Indent \o <<ARROW_UP, SP, BOX_HEAVY_UP_RIGHT, ARROW_RIGHT,
                   BOX_HEAVY_UP_LEFT, SP, BOX_UP_RIGHT, ARROW_LEFT,
                   BOX_UP_LEFT, SP, ARROW_DOWN, NL>>
    \o Indent \o <<ARROW_UP, SP, BOX_HEAVY_DOWN_RIGHT>> \o rep(ARROW_LEFT, 5)
        \o <<BOX_HEAVY_DOWN_LEFT, SP, ARROW_DOWN, NL>>
    \o Indent \o <<ARROW_UP, SP, ARROW_DOWN, ZERO, SP, SP, SP, ZERO, ARROW_UP,
                   SP, ARROW_DOWN, NL>>
    \o Indent \o <<ARROW_UP, SP, BOX_HEAVY_UP_RIGHT>> \o rep(ARROW_RIGHT, 5)
        \o <<BOX_HEAVY_UP_LEFT, SP, ARROW_DOWN, NL>>
    \o Indent \o <<BOX_UP_RIGHT>> \o rep(ARROW_LEFT, 9) \o <<BOX_UP_LEFT>>

MainSize == Vec2(F(MainCellSize), F(MainCellSize))

Texts == UNION {[1..n -> Alphabet] : n \in 0..MaxLen}

CellSizes == {Vec2(F(2), F(2)), Vec2(F(3), F(2)), MainSize}

---------------------------------------------------------------------------
(* The program as a state machine *)

Init ==
    /\ pc = "main"
    /\ panic = "none"
    /\ (input \in Texts \/ input = MainDiagram)
    /\ cell_table = NoTable
    /\ cell_size \in CellSizes
    /\ span_sec \in SpanSecs
    /\ commands = <<>>
    /\ cells = <<>>
    /\ elapsed = 0
    /\ rate = -1
    /\ moved = FALSE

\* main.rs:25-42: main builds the CellsParam resource, then runs the app
NewTable ==
    /\ pc = "main"
    /\ \E r \in {CellTable_new(input)} :
           /\ cell_table' = r.cell_table
           /\ pc' = IF r.ok THEN "Loading" ELSE "panicked"
           /\ panic' = IF r.ok THEN "none" ELSE "unwrap_none"
    /\ UNCHANGED <<input, cell_size, span_sec, commands, cells, elapsed, rate, moved>>

\* main.rs:51: OnEnter(Loaded) runs setup once; its commands are applied
\* when it returns, and a panic ends the app with nothing applied
Setup ==
    /\ pc = "Loading"
    /\ \E r \in {setup(cell_table, cell_size)} :
           /\ commands' = r.commands
           /\ panic' = r.panic
           /\ pc' = IF r.panic = "none" THEN "Loaded" ELSE "panicked"
           /\ cells' = IF r.panic = "none" THEN cell_entities(r.commands) ELSE <<>>
    /\ UNCHANGED <<input, cell_table, cell_size, span_sec, elapsed, rate, moved>>

\* main.rs:52: one frame: the clock advances, then Update runs move_cells
MoveCells ==
    /\ pc \in {"Loading", "Loaded"}
    /\ \E dt \in FrameDts :
        /\ elapsed + dt <= MaxElapsed
        /\ elapsed' = elapsed + dt
        /\ rate' = frame_rate(elapsed + dt, span_sec)
        /\ cells' = move_cells(cells, rate', cell_size)
    /\ moved' = (moved \/ cells # <<>>)
    /\ UNCHANGED <<pc, panic, input, cell_table, cell_size, span_sec, commands>>

Next == NewTable \/ Setup \/ MoveCells

Spec == Init /\ [][Next]_vars

---------------------------------------------------------------------------
(* Vocabulary of the claims *)

Vocabulary ==
    {SP, ZERO, ARROW_LEFT, ARROW_UP, ARROW_RIGHT, ARROW_DOWN,
     BOX_DOWN_RIGHT, BOX_DOWN_LEFT, BOX_UP_RIGHT, BOX_UP_LEFT,
     BOX_HEAVY_DOWN_RIGHT, BOX_HEAVY_DOWN_LEFT, BOX_HEAVY_UP_RIGHT,
     BOX_HEAVY_UP_LEFT}

\* the input holds a character that is neither of the vocabulary nor a line feed
HasUnrecognized == \E i \in 1..Len(input) : input[i] \notin Vocabulary \cup {NL}

\* CellTable::new has returned a table
TableBuilt == pc \in {"Loading", "Loaded"} \/ (pc = "panicked" /\ panic # "unwrap_none")

CellCommands == SelectSeq(commands, is_cell_bundle)

\* the character of the diagram at column ix of text row iy, blank past a row's end
CharAt(ix, iy) ==
    IF ix < Len(cell_table.table[iy + 1]) THEN cell_table.table[iy + 1][ix + 1] ELSE SP

HalfW == cell_size.x \div 2
HalfH == cell_size.y \div 2

\* where setup anchors the cell of column ix and text row iy: the lower left
\* corner of that cell in a grid centred at the origin, row 0 on top
CornerPos(ix, iy) ==
    Vec2(((2 * ix - cell_table.width) * cell_size.x) \div 2,
         ((cell_table.height - 2 * iy - 2) * cell_size.y) \div 2)

\* the centre of the same cell
CenterPos(ix, iy) == Vec2(CornerPos(ix, iy).x + HalfW, CornerPos(ix, iy).y + HalfH)

GridCells == (0..(cell_table.width - 1)) \X (0..(cell_table.height - 1))

Markers == 1..Len(cells)

\* the midpoint of the named edge of the cell whose centre is pos
EdgeMid(edge, pos) ==
    CASE edge = "Bottom" -> Vec2(pos.x, pos.y - HalfH)
      [] edge = "Top" -> Vec2(pos.x, pos.y + HalfH)
      [] edge = "Left" -> Vec2(pos.x - HalfW, pos.y)
      [] edge = "Right" -> Vec2(pos.x + HalfW, pos.y)

\* the edge a directive enters by and the edge it leaves by, from its name
EntryEdge(mt) ==
    CASE mt \in {"BottomToLeft", "BottomToRight", "Up"} -> "Bottom"
      [] mt \in {"TopToLeft", "TopToRight", "Down"} -> "Top"
      [] mt \in {"LeftToTop", "LeftToBottom", "Right"} -> "Left"
      [] mt \in {"RightToTop", "RightToBottom", "Left"} -> "Right"

ExitEdge(mt) ==
    CASE mt \in {"BottomToLeft", "TopToLeft", "Left"} -> "Left"
      [] mt \in {"BottomToRight", "TopToRight", "Right"} -> "Right"
      [] mt \in {"LeftToTop", "RightToTop", "Up"} -> "Top"
      [] mt \in {"LeftToBottom", "RightToBottom", "Down"} -> "Bottom"

\* where move_cells puts marker k at phase t
PosAt(k, t) == move_cell(cells[k].transform, cells[k].cell, t, HalfW, HalfH)

Rates == {as_f32(k, RateRes) : k \in 0..RateRes}

---------------------------------------------------------------------------
(* C1 *)

\* C1 (as claimed): when the input diagram holds a character outside the
\* vocabulary, startup never completes and setup has issued no spawn of a
\* Cell, wherever in the grid the character sits.
C1_NoSpawnBeforeReject ==
    HasUnrecognized => (pc # "Loaded" /\ CellCommands = <<>>)

---------------------------------------------------------------------------
(* C2 *)

\* C2 (as claimed): after setup on a valid diagram the Markers correspond one
\* to one to the non-blank cells: one Marker per non-blank cell, none for a
\* blank cell.
C2_MarkersAreNonBlankCells ==
    pc = "Loaded" =>
        /\ \A g \in GridCells :
            Cardinality({k \in Markers : cells[k].cell.pos = CornerPos(g[1], g[2])})
                = IF CharAt(g[1], g[2]) = SP THEN 0 ELSE 1
        /\ \A k \in Markers : cells[k].cell.move_type # "Blank"

\* C2 (amended): after setup on a valid diagram there is exactly one Marker
\* for every cell of the grid, blank cells included; the Marker carries the
\* directive of its cell's character, Blank for a blank cell.
C2_OneMarkerPerCell ==
    pc = "Loaded" =>
        /\ Len(cells) = cell_table.width * cell_table.height
        /\ \A g \in GridCells :
            Cardinality({k \in Markers :
                            /\ cells[k].cell.pos = CornerPos(g[1], g[2])
                            /\ cells[k].cell.move_type
                                 = move_type_from_char(CharAt(g[1], g[2]))}) = 1

C2_Witness ==
    /\ pc = "Loaded"
    /\ \E k \in Markers : cells[k].cell.move_type = "Blank"
    /\ \E k \in Markers : cells[k].cell.move_type \in Straight \cup Corner
    /\ cell_table.height >= 2

---------------------------------------------------------------------------
(* C3 *)

\* C3 (as claimed): every Marker's anchor is the centre of its home cell in a
\* grid centred at the world origin, so the anchors are symmetric about (0, 0).
C3_AnchorsCentered ==
    pc = "Loaded" =>
        /\ \A g \in GridCells :
            \E k \in Markers : cells[k].cell.pos = CenterPos(g[1], g[2])
        /\ \A k \in Markers :
            \E j \in Markers :
                cells[j].cell.pos = Vec2(-cells[k].cell.pos.x, -cells[k].cell.pos.y)

---------------------------------------------------------------------------
(* C4 *)

\* the longest trimmed line of the input, in characters
MaxTrimmed == max_len([i \in 1..Len(lines(input)) |-> trim(lines(input)[i])])

\* C4 (as claimed): for a non-empty multi-line input CellTable::new returns a
\* table whose width is the longest trimmed line and whose height is the
\* number of lines of the input.
C4_WidthHeight ==
    (pc # "main" /\ Len(input) > 0 /\ Len(lines(input)) >= 2) =>
        /\ TableBuilt
        /\ cell_table.width = MaxTrimmed
        /\ cell_table.height = Len(lines(input))

---------------------------------------------------------------------------
(* C5 *)

ProbeSlack == 2   \* how far past width and height get is probed

\* C5: on a table CellTable::new returned, get(x, y) never fails; it is blank
\* for x >= width, for y >= height and for x past the end of row y.
C5_GetTotal ==
    TableBuilt =>
        \A x \in 0..(cell_table.width + ProbeSlack) :
            \A y \in 0..(cell_table.height + ProbeSlack) :
                /\ get(cell_table, x, y) # PANIC
                /\ (x >= cell_table.width \/ y >= cell_table.height)
                        => get(cell_table, x, y) = SP
                /\ (y < cell_table.height /\ x >= Len(cell_table.table[y + 1]))
                        => get(cell_table, x, y) = SP
                /\ (y < cell_table.height /\ x < Len(cell_table.table[y + 1]))
                        => get(cell_table, x, y) = cell_table.table[y + 1][x + 1]

C5_Witness ==
    /\ TableBuilt
    /\ cell_table.height >= 2
    /\ \E y \in 1..cell_table.height :
        /\ Len(cell_table.table[y]) < cell_table.width
        /\ get(cell_table, Len(cell_table.table[y]), y - 1) = SP

---------------------------------------------------------------------------
(* C6 *)

\* C6: after any move_cells frame over the spawned Markers, a Marker with a
\* straight directive sits at the linear interpolation, for the frame's phase,
\* from one edge of its cell to the opposite edge along the directive's axis,
\* and at its anchor's coordinate on the other axis.
C6_StraightLerp ==
    (pc = "Loaded" /\ moved) =>
        \A k \in Markers :
            LET x == cells[k].cell.pos.x
                y == cells[k].cell.pos.y
                mt == cells[k].cell.move_type
                sweep_x == fmul(rate, 2 * HalfW)
                sweep_y == fmul(rate, 2 * HalfH)
            IN  /\ mt = "Right" => cells[k].transform = Vec2((x - HalfW) + sweep_x, y)
                /\ mt = "Left" => cells[k].transform = Vec2((x + HalfW) - sweep_x, y)
                /\ mt = "Up" => cells[k].transform = Vec2(x, (y - HalfH) + sweep_y)
                /\ mt = "Down" => cells[k].transform = Vec2(x, (y + HalfH) - sweep_y)

C6_Witness ==
    /\ pc = "Loaded" /\ moved
    /\ rate > 0 /\ rate < F(1)
    /\ \E k \in Markers :
        /\ cells[k].cell.move_type = "Right"
        /\ cells[k].transform.x # cells[k].cell.pos.x
        /\ cells[k].transform.x > cells[k].cell.pos.x - HalfW

---------------------------------------------------------------------------
(* C7 *)

\* v is monotonic along the phases 0 .. 1
Monotonic(k, axis) ==
    \/ \A t1, t2 \in Rates : t1 <= t2 => PosAt(k, t1)[axis] <= PosAt(k, t2)[axis]
    \/ \A t1, t2 \in Rates : t1 <= t2 => PosAt(k, t1)[axis] >= PosAt(k, t2)[axis]

\* C7 (as claimed): for every corner directive, anchor and cell size (square
\* or not) the position at phase 0 is the midpoint of the entry edge the
\* directive names, and each coordinate is monotonic in the phase.
C7_CornerEntry ==
    pc = "Loaded" =>
        \A k \in Markers :
            cells[k].cell.move_type \in Corner =>
                /\ PosAt(k, 0) = EdgeMid(EntryEdge(cells[k].cell.move_type),
                                         cells[k].cell.pos)
                /\ Monotonic(k, "x")
                /\ Monotonic(k, "y")

---------------------------------------------------------------------------
(* C8 *)

\* C8 (as claimed): for every corner directive each axis ends at offset 0
\* from the anchor, so the path ends (phase 1) at the centre of the cell.
C8_CornerEndsAtCenter ==
    pc = "Loaded" =>
        \A k \in Markers :
            cells[k].cell.move_type \in Corner => PosAt(k, F(1)) = cells[k].cell.pos

\* C8 (amended): for every corner directive only the axis that crosses the
\* entry edge ends at offset 0; the other axis starts at offset 0 and ends at
\* plus or minus the half extent, so the path ends (phase 1) at the midpoint
\* of the exit edge the directive names, never at the centre of the cell; a
\* frame puts the Marker on the straight line from its phase-0 point to that
\* midpoint, at the fraction the phase gives.
C8_CornerEndsAtExitEdge ==
    pc = "Loaded" =>
        \A k \in Markers :
            LET mt == cells[k].cell.move_type
                pos == cells[k].cell.pos
            IN  mt \in Corner =>
                    /\ PosAt(k, F(1)) = EdgeMid(ExitEdge(mt), pos)
                    /\ PosAt(k, F(1)) # pos
                    /\ ExitEdge(mt) \in {"Left", "Right"} =>
                            /\ PosAt(k, 0).x = pos.x
                            /\ PosAt(k, F(1)).y = pos.y
                    /\ ExitEdge(mt) \in {"Top", "Bottom"} =>
                            /\ PosAt(k, 0).y = pos.y
                            /\ PosAt(k, F(1)).x = pos.x
                    /\ moved =>
                            /\ cells[k].transform.x = PosAt(k, 0).x
                                    + fmul(rate, PosAt(k, F(1)).x - PosAt(k, 0).x)
                            /\ cells[k].transform.y = PosAt(k, 0).y
                                    + fmul(rate, PosAt(k, F(1)).y - PosAt(k, 0).y)

C8_Witness ==
    /\ pc = "Loaded" /\ moved
    /\ rate > 0 /\ rate < F(1)
    /\ HalfW # HalfH
    /\ \E k \in Markers :
        /\ cells[k].cell.move_type = "BottomToLeft"
        /\ cells[k].transform.x < cells[k].cell.pos.x
        /\ cells[k].transform.y < cells[k].cell.pos.y

---------------------------------------------------------------------------
(* C9 *)

\* C9 (as claimed): the phase of a frame is (elapsed mod cycle) / cycle (to
\* the precision of an f32), lies in [0, 1), has period cycle, and is the one
\* phase every Marker of the frame is placed by.
C9_Phase ==
    LET span == span_sec * TicksPerSec
        exact == elapsed % span      \* the f64 phase is exact / span
        diff == rate * span - exact * Unit
        abs == IF diff < 0 THEN -diff ELSE diff
    IN  rate # -1 =>
            /\ 2 * RateRes * abs <= Unit * span
            /\ rate >= 0 /\ rate < F(1)
            /\ frame_rate(elapsed + span, span_sec) = rate
            /\ moved => \A k \in Markers : cells[k].transform = PosAt(k, rate)

---------------------------------------------------------------------------
(* C10 *)

\* two anchors one cell apart along one axis
Adjacent(p, q) ==
    \/ (p.y = q.y /\ (p.x - q.x = cell_size.x \/ q.x - p.x = cell_size.x))
    \/ (p.x = q.x /\ (p.y - q.y = cell_size.y \/ q.y - p.y = cell_size.y))

\* C10: for the diagram and the 50 x 50 cells shipped in main, every Marker
\* with a straight or corner directive ends its sweep (phase 1) where exactly
\* one orthogonally adjacent straight-or-corner Marker starts its own (phase
\* 0), and starts where exactly one such neighbour ends: the hand-offs chain
\* into closed loops.
C10_ClosedLoops ==
    (input = MainDiagram /\ cell_size = MainSize /\ pc = "Loaded") =>
        LET moving == {k \in Markers : cells[k].cell.move_type \in Straight \cup Corner}
            start == [k \in Markers |-> PosAt(k, 0)]
            end == [k \in Markers |-> PosAt(k, F(1))]
        IN  \A k \in moving :
                /\ Cardinality({n \in moving :
                                    /\ Adjacent(cells[k].cell.pos, cells[n].cell.pos)
                                    /\ start[n] = end[k]}) = 1
                /\ Cardinality({n \in moving :
                                    /\ Adjacent(cells[k].cell.pos, cells[n].cell.pos)
                                    /\ end[n] = start[k]}) = 1

C10_Witness ==
    /\ input = MainDiagram /\ cell_size = MainSize /\ pc = "Loaded" /\ moved
    /\ Cardinality({k \in Markers : cells[k].cell.move_type \in Corner}) = 20
    /\ Cardinality({k \in Markers : cells[k].cell.move_type \in Straight}) = 68

====
